---- MODULE Spec2Model ----
(***************************************************************************)
(* Model of the frame-sampling and parallel downsampling pipeline of the   *)
(* repository: CV2Downsampler.process, the thumbnail generators built on   *)
(* BaseThumbnailGenerator, and the standalone generate_thumbnails script.  *)
(***************************************************************************)
EXTENDS Integers, Sequences, FiniteSets, TLC

(***************************************************************************)
(* Python floats.  The sampling code divides and multiplies Python floats  *)
(* (IEEE-754 binary64, round to nearest, ties to even).  The mantissas do  *)
(* not fit the integers of the model checker, so a natural number is kept  *)
(* as its sequence of bits, least significant bit first, without leading   *)
(* zero bits (zero is the empty sequence), and a non-negative float is a   *)
(* record [m, e] standing for m * 2^e with m odd (or m zero and e zero).   *)
(***************************************************************************)
MantissaBits == 53

RECURSIVE Bits(_)
Bits(n) == IF n = 0 THEN << >> ELSE << n % 2 >> \o Bits(n \div 2)

RECURSIVE BitsToNat(_)
BitsToNat(b) == IF b = << >> THEN 0 ELSE b[1] + 2 * BitsToNat(Tail(b))

BitAt(b, i) == IF i >= 1 /\ i <= Len(b) THEN b[i] ELSE 0

\* The operators on bit sequences below split their range of positions in two
\* halves, so that the depth of an evaluation is logarithmic in the length.

\* the highest position in lo..hi holding a 1, or 0
RECURSIVE HighBit(_, _, _)
HighBit(b, lo, hi) ==
    IF lo > hi THEN 0
    ELSE IF lo = hi THEN (IF b[lo] = 1 THEN lo ELSE 0)
    ELSE LET mid == (lo + hi) \div 2
             up  == HighBit(b, mid + 1, hi)
         IN  IF up # 0 THEN up ELSE HighBit(b, lo, mid)

\* the lowest position in lo..hi holding a 1, or 0
RECURSIVE LowBit(_, _, _)
LowBit(b, lo, hi) ==
    IF lo > hi THEN 0
    ELSE IF lo = hi THEN (IF b[lo] = 1 THEN lo ELSE 0)
    ELSE LET mid == (lo + hi) \div 2
             dn  == LowBit(b, lo, mid)
         IN  IF dn # 0 THEN dn ELSE LowBit(b, mid + 1, hi)

BTrim(b) == SubSeq(b, 1, HighBit(b, 1, Len(b)))

RECURSIVE BCmpRange(_, _, _, _)
BCmpRange(a, b, lo, hi) ==
    IF lo > hi THEN 0
    ELSE IF lo = hi
    THEN (IF a[lo] > b[lo] THEN 1 ELSE IF a[lo] < b[lo] THEN -1 ELSE 0)
    ELSE LET mid == (lo + hi) \div 2
             up  == BCmpRange(a, b, mid + 1, hi)
         IN  IF up # 0 THEN up ELSE BCmpRange(a, b, lo, mid)

BCmp(a, b) ==
    IF Len(a) > Len(b) THEN 1
    ELSE IF Len(a) < Len(b) THEN -1
    ELSE BCmpRange(a, b, 1, Len(a))

\* bits lo..hi of a + b with carry c coming in: [s, c]
RECURSIVE BAddRange(_, _, _, _, _)
BAddRange(a, b, lo, hi, c) ==
    IF lo = hi
    THEN LET s == BitAt(a, lo) + BitAt(b, lo) + c
         IN  [s |-> << s % 2 >>, c |-> s \div 2]
    ELSE LET mid == (lo + hi) \div 2
             dn  == BAddRange(a, b, lo, mid, c)
             up  == BAddRange(a, b, mid + 1, hi, dn.c)
         IN  [s |-> dn.s \o up.s, c |-> up.c]

BAdd(a, b) ==
    LET n == IF Len(a) > Len(b) THEN Len(a) ELSE Len(b)
    IN  IF n = 0 THEN << >>
        ELSE LET r == BAddRange(a, b, 1, n, 0)
             IN  IF r.c = 1 THEN Append(r.s, 1) ELSE r.s

\* bits lo..hi of a - b with borrow c coming in: [s, c]
RECURSIVE BSubRange(_, _, _, _, _)
BSubRange(a, b, lo, hi, c) ==
    IF lo = hi
    THEN LET d == BitAt(a, lo) - BitAt(b, lo) - c
         IN  [s |-> << IF d < 0 THEN d + 2 ELSE d >>, c |-> IF d < 0 THEN 1 ELSE 0]
    ELSE LET mid == (lo + hi) \div 2
             dn  == BSubRange(a, b, lo, mid, c)
             up  == BSubRange(a, b, mid + 1, hi, dn.c)
         IN  [s |-> dn.s \o up.s, c |-> up.c]

\* a - b for a >= b
BSub(a, b) == IF a = << >> THEN << >> ELSE BTrim(BSubRange(a, b, 1, Len(a), 0).s)

BShl(a, k) == IF a = << >> THEN << >> ELSE [i \in 1..k |-> 0] \o a

BShr(a, k) == IF k >= Len(a) THEN << >> ELSE SubSeq(a, k + 1, Len(a))

\* the sum of a * 2^(i-1) over the positions i in lo..hi where b holds a 1
RECURSIVE BMulRange(_, _, _, _)
BMulRange(a, b, lo, hi) ==
    IF lo > hi THEN << >>
    ELSE IF lo = hi THEN (IF b[lo] = 1 THEN BShl(a, lo - 1) ELSE << >>)
    ELSE LET mid == (lo + hi) \div 2
         IN  BAdd(BMulRange(a, b, lo, mid), BMulRange(a, b, mid + 1, hi))

BMul(a, b) ==
    IF Len(a) < Len(b) THEN BMulRange(b, a, 1, Len(a)) ELSE BMulRange(a, b, 1, Len(b))

\* long division over the bits hi down to lo of a, with remainder r coming in:
\* [q, r], q the quotient bits of the positions hi down to lo (highest first)
RECURSIVE BDivRange(_, _, _, _, _)
BDivRange(a, b, lo, hi, r) ==
    IF lo = hi
    THEN LET r2 == BTrim(<< a[lo] >> \o r)
         IN  IF BCmp(r2, b) >= 0
             THEN [q |-> << 1 >>, r |-> BSub(r2, b)]
             ELSE [q |-> << 0 >>, r |-> r2]
    ELSE LET mid == (lo + hi) \div 2
             up  == BDivRange(a, b, mid + 1, hi, r)
             dn  == BDivRange(a, b, lo, mid, up.r)
         IN  [q |-> up.q \o dn.q, r |-> dn.r]

Reverse(s) == [i \in 1..Len(s) |-> s[Len(s) + 1 - i]]

\* [q, r] with a = q * b + r and r < b, for b > 0
BDivMod(a, b) ==
    IF a = << >> THEN [q |-> << >>, r |-> << >>]
    ELSE LET d == BDivRange(a, b, 1, Len(a), << >>)
         IN  [q |-> BTrim(Reverse(d.q)), r |-> d.r]

\* the record [m, e] of the value m * 2^e, m made odd
FNorm(m, e) ==
    IF m = << >> THEN [m |-> << >>, e |-> 0]
    ELSE LET z == LowBit(m, 1, Len(m)) - 1 IN [m |-> BShr(m, z), e |-> e + z]

\* the float nearest to (m + f) * 2^e, where 0 <= f < 1 and sticky says f > 0
FRound(m, e, sticky) ==
    IF Len(m) <= MantissaBits THEN FNorm(m, e)
    ELSE LET d     == Len(m) - MantissaBits
             kept  == BShr(m, d)
             guard == m[d]
             rest  == sticky \/ LowBit(m, 1, d - 1) # 0
             up    == guard = 1 /\ (rest \/ kept[1] = 1)
         IN  FNorm(IF up THEN BAdd(kept, << 1 >>) ELSE kept, e + d)

FromNat(n) == FNorm(Bits(n), 0)

FIsZero(x) == x.m = << >>

FMul(x, y) == FRound(BMul(x.m, y.m), x.e + y.e, FALSE)

\* x / y for y > 0: a quotient of more than MantissaBits + 2 bits, then rounded
FDiv(x, y) ==
    IF FIsZero(x) THEN x
    ELSE LET k  == MantissaBits + 3 + Len(y.m) - Len(x.m)
             qr == BDivMod(BShl(x.m, k), y.m)
         IN  FRound(qr.q, x.e - y.e - k, qr.r # << >>)

\* int(x) of Python for x >= 0: truncation
FloatToInt(x) ==
    IF x.e >= 0 THEN BitsToNat(BShl(x.m, x.e)) ELSE BitsToNat(BShr(x.m, -x.e))

FLess(x, y) ==
    LET lo == IF x.e < y.e THEN x.e ELSE y.e
    IN  BCmp(BShl(x.m, x.e - lo), BShl(y.m, y.e - lo)) < 0

FLeq(x, y) == ~FLess(y, x)

Min(a, b) == IF a < b THEN a ELSE b

Max(a, b) == IF a > b THEN a ELSE b

Range(s) == {s[i] : i \in 1..Len(s)}

(***************************************************************************)
(* Bounds of the model.                                                    *)
(***************************************************************************)
\* frames of a source in the sampling specification
MaxFrames == 36
\* output frame rates 1..MaxOutputFps
MaxOutputFps == 4
\* chunk sizes 1..MaxChunkSize
MaxChunkSize == 4
\* frames of a source in the specification of a whole run of process
MaxRunFrames == 3
\* worker processes of a pool, 1..MaxWorkers
MaxWorkers == 2
\* frames of a source whose read fails
MaxUnreadable == 2
\* pool workers that raise in one batch
MaxWorkerErrors == 1
\* frames of the long source of the thumbnail specification
LongFrames == 1001
\* frames of a source of the thumbnail samplers in the sampling specification
MaxThumbFrames == 12
\* frames of a source of a run of main
MaxMainFrames == 1
\* the longest list of thumbnails given to the assembly
MaxAssemblyThumbs == 2

\* width and height of a source, and output width, of the resize specification
MaxSide == 6

\* frame rates of the sources (cap.get(CAP_PROP_FPS), whole numbers here)
SourceFps == {1, 2, 5, 7}

\* frame rates, of the source and of the output, in the specifications of whole runs
RunFps == {1, 2}

(***************************************************************************)
(* Frame sampling of CV2Downsampler.process.                               *)
(***************************************************************************)
\* frame_indices: the frames kept for output_fps, orig_fps a float
FrameIndices(total_frames, orig_fps, output_fps) ==
    IF FLeq(orig_fps, FromNat(output_fps))
    THEN [i \in 1..total_frames |-> i - 1]
    ELSE LET step == FDiv(orig_fps, FromNat(output_fps))
             n    == FloatToInt(FDiv(FromNat(total_frames), step))
         IN  [i \in 1..n |-> FloatToInt(FMul(FromNat(i - 1), step))]

\* the chunks without the shorter last one
ChunksWithoutRemainder(indices, size) ==
    [c \in 1..(Len(indices) \div size) |->
        SubSeq(indices, (c - 1) * size + 1, c * size)]

\* chunks: frame_indices[i:i+chunk_size] for i in range(0, len, chunk_size)
Chunks(indices, size) ==
    [c \in 1..((Len(indices) + size - 1) \div size) |->
        SubSeq(indices, (c - 1) * size + 1, Min(c * size, Len(indices)))]

\* the frames a chunk worker returns: those whose read succeeds, in chunk order
RECURSIVE ProcessFrameChunk(_, _)
ProcessFrameChunk(chunk_indices, unreadable) ==
    IF chunk_indices = << >> THEN << >>
    ELSE LET rest == ProcessFrameChunk(Tail(chunk_indices), unreadable)
         IN  IF Head(chunk_indices) \in unreadable THEN rest
             ELSE << Head(chunk_indices) >> \o rest

\* has_audio without the size test
HasAudioExistsOnly(audio) == audio # "absent"

\* has_audio: os.path.exists(temp_audio) and os.path.getsize(temp_audio) > 0
HasAudio(audio) == audio # "absent" /\ audio # "empty"

(***************************************************************************)
(* Sampling and naming of the thumbnail pipeline.                          *)
(***************************************************************************)
MinThumbnails == 5
SecondsPerThumbnail == 6
PadWidth == 3

\* duration of _get_video_metadata: total_frames / fps if fps > 0 else 0
Duration(total_frames, fps) ==
    IF fps > 0 THEN FDiv(FromNat(total_frames), FromNat(fps)) ELSE FromNat(0)

\* num_thumbnails of the generators: int(duration * self.output_fps)
NumThumbnailsGenerator(duration, output_fps) ==
    FloatToInt(FMul(duration, FromNat(output_fps)))

\* num_thumbnails of the standalone script: max(5, int(duration / 6))
NumThumbnailsStandalone(duration) ==
    Max(MinThumbnails, FloatToInt(FDiv(duration, FromNat(SecondsPerThumbnail))))

NumThumbnails(processor, duration, output_fps) ==
    IF processor = "standalone" THEN NumThumbnailsStandalone(duration)
    ELSE NumThumbnailsGenerator(duration, output_fps)

\* np.linspace(0, duration, num=num, endpoint=False): arange(num) * (duration / num)
Linspace(duration, num) ==
    IF num = 0 THEN << >>
    ELSE LET step == FDiv(duration, FromNat(num))
         IN  [i \in 1..num |-> FMul(FromNat(i - 1), step)]

\* frame_number of the CV2 generator: int(t * fps)
FrameNumber(t, fps) == FloatToInt(FMul(t, FromNat(fps)))

\* characters are their codes: "0" is 48 and "." is 46
RECURSIVE Digits(_)
Digits(n) == IF n < 10 THEN << 48 + n >> ELSE Append(Digits(n \div 10), 48 + (n % 10))

\* a field of exactly PadWidth digits: only the last PadWidth digits are kept
Pad03dFixedWidth(i) ==
    LET d == Digits(i)
    IN  IF Len(d) >= PadWidth THEN SubSeq(d, Len(d) - PadWidth + 1, Len(d))
        ELSE [k \in 1..(PadWidth - Len(d)) |-> 48] \o d

\* f"{i:03d}": at least PadWidth digits, zeros on the left
Pad03d(i) ==
    LET d == Digits(i)
    IN  IF Len(d) >= PadWidth THEN d ELSE [k \in 1..(PadWidth - Len(d)) |-> 48] \o d

\* the part of output_path after f"{base_name}-": f"{i:03d}.png"
OutputPath(i) == Pad03d(i) \o << 46, 112, 110, 103 >>

\* a < b of two Python strings
StrLess(a, b) ==
    \E k \in 1..(Len(b)) :
        /\ \A j \in 1..(k - 1) : j <= Len(a) /\ a[j] = b[j]
        /\ \/ k = Len(a) + 1
           \/ k <= Len(a) /\ a[k] < b[k]

\* thumbnail_files left in the order of completion
Unsorted(files) == files

\* sorted(thumbnail_files) of a list of distinct strings
RECURSIVE Sorted(_)
Sorted(files) ==
    IF files = << >> THEN << >>
    ELSE LET least == CHOOSE i \in 1..Len(files) :
                          \A j \in 1..Len(files) : j = i \/ StrLess(files[i], files[j])
         IN  << files[least] >> \o
             Sorted(SubSeq(files, 1, least - 1) \o SubSeq(files, least + 1, Len(files)))

(***************************************************************************)
(* State.                                                                  *)
(***************************************************************************)
VARIABLES
    video,            \* the source file: [exists, opens, total_frames, fps, unreadable]
    args,             \* the run: [processor, output_fps, chunk_size, max_workers]
    frame_size,       \* [orig_width, orig_height] of the source, output_width of the run
    \* CV2Downsampler.process
    d_pc,             \* where process is
    use_cuda,         \* process: use_cuda
    temp_dir,         \* the mkdtemp directory: "none", "exists", "removed"
    frame_indices,    \* process: frame_indices
    chunks,           \* process: chunks
    futures,          \* state of the future of each submitted chunk
    results,          \* frames returned by each finished chunk worker
    collected,        \* chunks whose future as_completed has yielded
    written,          \* frames passed to out.write, in order
    completed,        \* process: completed
    audio_file,       \* temp_audio after the extraction: "absent", "empty", "nonempty"
    remux,            \* [merge, copy]: whether merge_cmd ran, whether shutil.copy ran
    output_file,      \* the file at output_path: "none", "merged", "partial", "copy"
    exit_codes,       \* exit codes of the audio extraction and merge commands
    exc,              \* the exception travelling to the except clause
    ret,              \* the value process returns
    new_height,       \* process: new_height
    calls,            \* arguments of each submitted call: [chunk, use_cuda]
    resized,          \* the resize variant each worker used for each frame it returned
    cap,              \* the capture of process: "none", "open", "released"
    out,              \* the video writer of process: "none", "open", "released"
    chunk_cap,        \* the capture of each chunk worker: "none", "open", "released"
    \* the thumbnail pipeline
    t_pc,             \* where generate_thumbnails is
    duration,         \* duration of the metadata
    num_thumbnails,   \* _generate_frame_data: num_thumbnails
    timestamps,       \* _generate_frame_data: timestamps
    frame_data,       \* the sequence number i of each entry of frame_data
    tasks,            \* state of the future of each frame task
    yielded,          \* frame tasks whose future as_completed has yielded
    thumbnail_files,  \* _process_frames: thumbnail_files, in completion order
    t_temp_dir,       \* the mkdtemp directory of the FFmpeg generator
    t_ret,            \* what _process_frames returned, or the exception that ended it
    \* the command-line scripts
    runs,             \* each run of create_sample_video.main:
                      \* [pc, processor, keep_tmp_files, pending, exit_code]
    temp,             \* the directory 'temp' of the working directory: "absent", "exists"
    probe,            \* what extract_video_info or extract_fps gave
    \* align_videos.get_audio_offset
    a_call,           \* the call: [file1, file2 : [is_video, usable], technique]
    a_pc,             \* where get_audio_offset is
    a_temp_dir,       \* the mkdtemp directory: "none", "exists", "absent"
    rmtree_calls,     \* how many times shutil.rmtree(temp_dir) was called
    temp_files_to_cleanup, \* get_audio_offset: temp_files_to_cleanup
    a_outcome,        \* how ad.align ended
    a_pending,        \* what the try statement has pending when finally begins
    a_ret,            \* what get_audio_offset returned, or the exception that ended it
    \* create_video_from_thumbs (utils) and create_video (standalone script)
    v_call,           \* the call: [variant, thumbnails_input : [kind, files], audio_ok]
    v_pc,             \* where the function is
    v_thumbnail_files, \* thumbnail_files: for each path, whether it is a file
    audio_clip,       \* the AudioFileClip: "none", "loaded"
    output_video,     \* the output video file: "none", "written"
    v_ret             \* what the function returned, or the exception that ended it

inputVars == << video, args, frame_size >>

poolVars == << futures, results, collected, written, completed >>

tailVars == << audio_file, remux, output_file, exit_codes >>

workVars == << new_height, calls, resized, cap, out, chunk_cap >>

downVars == << d_pc, use_cuda, temp_dir, frame_indices, chunks, poolVars, tailVars, exc, ret,
              workVars >>

thumbVars == << t_pc, duration, num_thumbnails, timestamps, frame_data, tasks, yielded,
                thumbnail_files, t_temp_dir, t_ret >>

scriptVars == << runs, temp, probe >>

alignVars == << a_call, a_pc, a_temp_dir, rmtree_calls, temp_files_to_cleanup, a_outcome,
               a_pending, a_ret >>

assembleVars == << v_call, v_pc, v_thumbnail_files, audio_clip, output_video, v_ret >>

vars == << inputVars, downVars, thumbVars, scriptVars, alignVars, assembleVars >>

NoResult == [kind |-> "none"]

ErrorResult(msg) == [kind |-> "error", error |-> msg]

PathResult == [kind |-> "path"]

(***************************************************************************)
(* CV2Downsampler.process.                                                 *)
(***************************************************************************)
Running == {c \in DOMAIN futures : futures[c] = "running"}

Queued == {c \in DOMAIN futures : futures[c] = "queued"}

Finished == {c \in DOMAIN futures : futures[c] \in {"done", "raised"}}

\* the runs of create_sample_video.main that can be under way at once
Runs == {1, 2}

\* process was called directly, or by run 1 of main (create_sample_video.py
\* lines 106-121)
ProcessCalled == runs[1].pc \in {"none", "process"}

\* line 95: new_height = int(output_width * orig_height / orig_width), the
\* quotient a float
NewHeight(output_width, orig_height, orig_width) ==
    FloatToInt(FDiv(FromNat(output_width * orig_height), FromNat(orig_width)))

\* the height given to img.thumbnail by the thumbnail workers:
\* img.height * target_width // img.width
ThumbnailHeight(height, target_width, width) == (height * target_width) \div width

\* line 16: the default of the parameter use_cuda, taken when none is passed
PassedCudaDefault(run_cuda) == TRUE

\* line 132: the use_cuda of process is passed to every call
PassedCuda(run_cuda) == run_cuda

\* lines 30-46: the branch on use_cuda taken for a frame
ResizeVariant(worker_cuda) == IF worker_cuda THEN "gpu" ELSE "cpu"

\* lines 63-65: the input file is missing
ProcessMissingInput ==
    /\ d_pc = "start"
    /\ ProcessCalled
    /\ args.processor = "auto-cv2"
    /\ ~video.exists
    /\ ret' = ErrorResult("Input file does not exist")
    /\ d_pc' = "returned"
    /\ UNCHANGED << inputVars, alignVars, assembleVars, scriptVars, workVars, use_cuda, temp_dir, frame_indices, chunks, poolVars,
                    tailVars, exc, thumbVars >>

\* lines 67-82: mkdtemp, the CUDA device count
ProcessBegin ==
    /\ d_pc = "start"
    /\ ProcessCalled
    /\ args.processor = "auto-cv2"
    /\ video.exists
    /\ temp_dir' = "exists"
    /\ use_cuda' \in BOOLEAN
    /\ d_pc' = "open"
    /\ UNCHANGED << inputVars, alignVars, assembleVars, scriptVars, workVars, frame_indices, chunks, poolVars, tailVars, exc, ret,
                    thumbVars >>

\* cap.isOpened() after cv2.VideoCapture(path), with the test that follows it
\* reading the source as open whatever it is
IsOpenedUnchecked(v) == TRUE

\* cap.isOpened() after cv2.VideoCapture(path)
IsOpened(v) == v.opens

\* lines 84-98: cv2.VideoCapture, isOpened
OpenCapture ==
    /\ d_pc = "open"
    /\ IF IsOpened(video)
       THEN /\ d_pc' = "sample" /\ exc' = exc
            /\ cap' = "open"
            /\ new_height' = NewHeight(frame_size.output_width, frame_size.orig_height,
                                       frame_size.orig_width)
       ELSE /\ d_pc' = "except" /\ exc' = "ValueError"
            /\ UNCHANGED << cap, new_height >>
    /\ UNCHANGED << inputVars, alignVars, assembleVars, scriptVars, calls, resized, out, chunk_cap, use_cuda, temp_dir, frame_indices, chunks, poolVars,
                    tailVars, ret, thumbVars >>

\* lines 100-111
SampleFrames ==
    /\ d_pc = "sample"
    /\ frame_indices' = FrameIndices(video.total_frames, FromNat(video.fps), args.output_fps)
    /\ d_pc' = "chunk"
    /\ UNCHANGED << inputVars, alignVars, assembleVars, scriptVars, workVars, use_cuda, temp_dir, chunks, poolVars, tailVars, exc, ret,
                    thumbVars >>

\* lines 113-120: the video writer, the chunks
DivideChunks ==
    /\ d_pc = "chunk"
    /\ chunks' = Chunks(frame_indices, args.chunk_size)
    /\ out' = "open"
    /\ d_pc' = "submit"
    /\ UNCHANGED << inputVars, alignVars, assembleVars, scriptVars, new_height, calls, resized, cap, chunk_cap, use_cuda, temp_dir, frame_indices, poolVars, tailVars,
                    exc, ret, thumbVars >>

\* lines 125-134: executor.submit of the next chunk
SubmitChunk ==
    /\ d_pc = "submit"
    /\ Len(futures) < Len(chunks)
    /\ futures' = Append(futures, "queued")
    /\ results' = Append(results, << >>)
    /\ calls' = Append(calls, [chunk |-> Len(futures) + 1, use_cuda |-> PassedCuda(use_cuda)])
    /\ resized' = Append(resized, << >>)
    /\ chunk_cap' = Append(chunk_cap, "none")
    /\ UNCHANGED << inputVars, alignVars, assembleVars, scriptVars, new_height, cap, out, d_pc, use_cuda, temp_dir, frame_indices, chunks,
                    collected, written, completed, tailVars, exc, ret, thumbVars >>

\* lines 136-139: every chunk is submitted
StartCollecting ==
    /\ d_pc = "submit"
    /\ Len(futures) = Len(chunks)
    /\ completed' = 0
    /\ d_pc' = "collect"
    /\ UNCHANGED << inputVars, alignVars, assembleVars, scriptVars, workVars, use_cuda, temp_dir, frame_indices, chunks, futures,
                    results, collected, written, tailVars, exc, ret, thumbVars >>

\* lines 122-164: KeyboardInterrupt is raised in the submit loop or in the
\* as_completed loop; it leaves the loop for the exit of the with statement
Interrupt ==
    /\ d_pc \in {"submit", "collect"}
    /\ exc = "none"
    /\ exc' = "KeyboardInterrupt"
    /\ d_pc' = "shutdown"
    /\ UNCHANGED << inputVars, alignVars, assembleVars, scriptVars, workVars, use_cuda, temp_dir, frame_indices, chunks, poolVars,
                    tailVars, ret, thumbVars >>

\* an except clause naming no class, which catches every exception
CaughtByBareExcept(e) == TRUE

\* lines 240: except Exception catches the subclasses of Exception, which
\* KeyboardInterrupt is not
Caught(e) == e # "KeyboardInterrupt"

\* the exit of a with statement whose shutdown does not wait
JoinedWithoutWait(states) == TRUE

\* the exit of the with statement of a ProcessPoolExecutor: shutdown(wait=True)
\* returns when every submitted future has finished
Joined(states) == \A k \in DOMAIN states : states[k] \in {"done", "raised"}

\* line 122: the with statement is left by an exception
PoolShutdown ==
    /\ d_pc = "shutdown"
    /\ Joined(futures)
    /\ d_pc' = IF Caught(exc) THEN "except" ELSE "finally"
    /\ UNCHANGED << inputVars, alignVars, assembleVars, scriptVars, workVars, use_cuda, temp_dir, frame_indices, chunks, poolVars,
                    tailVars, exc, ret, thumbVars >>

\* the pool gives the oldest queued chunk to a free worker process, which
\* opens its own capture (lines 20-21)
WorkerStart(c) ==
    /\ futures[c] = "queued"
    /\ \A q \in Queued : c <= q
    /\ Cardinality(Running) < args.max_workers
    /\ futures' = [futures EXCEPT ![c] = "running"]
    /\ chunk_cap' = [chunk_cap EXCEPT ![c] = "open"]
    /\ UNCHANGED << inputVars, alignVars, assembleVars, scriptVars, new_height, calls, resized, cap, out, d_pc, use_cuda, temp_dir, frame_indices, chunks, results,
                    collected, written, completed, tailVars, exc, ret, thumbVars >>

\* lines 15-51: _process_frame_chunk resizes the frames it could read,
\* releases its capture and returns
WorkerReturn(c) ==
    /\ futures[c] = "running"
    /\ futures' = [futures EXCEPT ![c] = "done"]
    /\ results' = [results EXCEPT
                     ![c] = ProcessFrameChunk(chunks[calls[c].chunk], video.unreadable)]
    /\ resized' = [resized EXCEPT
                     ![c] = [k \in 1..Len(results'[c]) |-> ResizeVariant(calls[c].use_cuda)]]
    /\ chunk_cap' = [chunk_cap EXCEPT ![c] = "released"]
    /\ UNCHANGED << inputVars, alignVars, assembleVars, scriptVars, new_height, calls, cap, out, d_pc, use_cuda, temp_dir, frame_indices, chunks,
                    collected, written, completed, tailVars, exc, ret, thumbVars >>

\* a unit of work that raised put back in the queue of the pool
RequeuedAfterRaise == "queued"

\* lines 162-163, base.py line 47: the exception of a unit of work is stored
\* in its future; nothing submits the unit again
AfterRaise == "raised"

\* the worker of a chunk raises (the resize fails, the worker process dies):
\* chunk_cap.release() at line 50 is not reached
WorkerRaise(c) ==
    /\ futures[c] = "running"
    /\ Cardinality({k \in DOMAIN futures : futures[k] = "raised"}) < MaxWorkerErrors
    /\ futures' = [futures EXCEPT ![c] = AfterRaise]
    /\ UNCHANGED << inputVars, alignVars, assembleVars, scriptVars, workVars, d_pc, use_cuda, temp_dir, frame_indices, chunks, results,
                    collected, written, completed, tailVars, exc, ret, thumbVars >>

\* lines 142-164: as_completed yields a finished future; its frames are written
CollectChunk(c) ==
    /\ d_pc = "collect"
    /\ c \in Finished \ collected
    /\ collected' = collected \cup {c}
    /\ IF futures[c] = "done"
       THEN written' = written \o results[c] /\ completed' = completed + 1
       ELSE UNCHANGED << written, completed >>
    /\ UNCHANGED << inputVars, alignVars, assembleVars, scriptVars, workVars, d_pc, use_cuda, temp_dir, frame_indices, chunks, futures,
                    results, tailVars, exc, ret, thumbVars >>

\* lines 165-170: the with block ends, out.release(), cap.release()
ReleaseWriter ==
    /\ d_pc = "collect"
    /\ collected = DOMAIN futures
    /\ out' = "released"
    /\ cap' = "released"
    /\ d_pc' = "ffmpeg"
    /\ UNCHANGED << inputVars, alignVars, assembleVars, scriptVars, new_height, calls, resized, chunk_cap, use_cuda, temp_dir, frame_indices, chunks, poolVars,
                    tailVars, exc, ret, thumbVars >>

\* lines 172-179: get_ffmpeg_path, exists, os.access
CheckFfmpeg ==
    /\ d_pc = "ffmpeg"
    /\ \E found \in {"ok", "missing", "not executable"} :
          IF found = "ok" THEN d_pc' = "audio" /\ exc' = exc
          ELSE /\ d_pc' = "except"
               /\ exc' = IF found = "missing" THEN "FileNotFoundError" ELSE "PermissionError"
    /\ UNCHANGED << inputVars, alignVars, assembleVars, scriptVars, workVars, use_cuda, temp_dir, frame_indices, chunks, poolVars,
                    tailVars, ret, thumbVars >>

\* lines 181-191: the audio extraction command exits with some code and leaves
\* temp_audio absent, empty or filled; subprocess.run is called without check
ExtractAudio ==
    /\ d_pc = "audio"
    /\ audio_file' \in {"absent", "empty", "nonempty"}
    /\ \E exit_code \in {0, 1} : exit_codes' = [exit_codes EXCEPT !.audio = exit_code]
    /\ d_pc' = "remux"
    /\ UNCHANGED << inputVars, alignVars, assembleVars, scriptVars, workVars, use_cuda, temp_dir, frame_indices, chunks, poolVars,
                    remux, output_file, exc, ret, thumbVars >>

\* lines 193-214: has_audio, then the merge command or shutil.copy; a merge
\* command that fails leaves no output file or a partial one, and
\* subprocess.run is called without check
Remux ==
    /\ d_pc = "remux"
    /\ IF HasAudio(audio_file)
       THEN /\ remux' = [remux EXCEPT !.merge = TRUE]
            /\ \E exit_code \in {0, 1} :
                  /\ exit_codes' = [exit_codes EXCEPT !.merge = exit_code]
                  /\ IF exit_code = 0 THEN output_file' = "merged"
                     ELSE output_file' \in {output_file, "partial"}
       ELSE /\ remux' = [remux EXCEPT !.copy = TRUE]
            /\ output_file' = "copy"
            /\ UNCHANGED exit_codes
    /\ d_pc' = "report"
    /\ UNCHANGED << inputVars, alignVars, assembleVars, scriptVars, workVars, use_cuda, temp_dir, frame_indices, chunks, poolVars,
                    audio_file, exc, ret, thumbVars >>

\* lines 216-238: os.path.getsize(output_path), return output_path
Report ==
    /\ d_pc = "report"
    /\ IF output_file = "none"
       THEN d_pc' = "except" /\ exc' = "FileNotFoundError" /\ ret' = ret
       ELSE d_pc' = "finally" /\ exc' = exc /\ ret' = PathResult
    /\ UNCHANGED << inputVars, alignVars, assembleVars, scriptVars, workVars, use_cuda, temp_dir, frame_indices, chunks, poolVars,
                    tailVars, thumbVars >>

\* lines 240-242: except Exception
HandleException ==
    /\ d_pc = "except"
    /\ ret' = ErrorResult(exc)
    /\ d_pc' = "finally"
    /\ UNCHANGED << inputVars, alignVars, assembleVars, scriptVars, workVars, use_cuda, temp_dir, frame_indices, chunks, poolVars,
                    tailVars, exc, thumbVars >>

\* lines 244-250: finally, shutil.rmtree(temp_dir); a removal that raises is
\* caught and printed as a warning; then process returns, or the exception
\* no clause caught goes on to the caller
Cleanup ==
    /\ d_pc = "finally"
    /\ \E removal \in {"ok", "raises"} :
          temp_dir' = IF removal = "ok" THEN "removed" ELSE temp_dir
    /\ d_pc' = IF exc = "none" \/ Caught(exc) THEN "returned" ELSE "propagated"
    /\ UNCHANGED << inputVars, alignVars, assembleVars, scriptVars, workVars, use_cuda, frame_indices, chunks, poolVars, tailVars, exc,
                    ret, thumbVars >>

DownIdle ==
    /\ d_pc = "start"
    /\ use_cuda = FALSE
    /\ temp_dir = "none"
    /\ frame_indices = << >>
    /\ chunks = << >>
    /\ futures = << >>
    /\ results = << >>
    /\ collected = {}
    /\ written = << >>
    /\ completed = 0
    /\ audio_file = "not extracted"
    /\ remux = [merge |-> FALSE, copy |-> FALSE]
    /\ output_file = "none"
    /\ exit_codes = [audio |-> 0, merge |-> 0]
    /\ exc = "none"
    /\ ret = NoResult
    /\ new_height = 0
    /\ calls = << >>
    /\ resized = << >>
    /\ cap = "none"
    /\ out = "none"
    /\ chunk_cap = << >>

ThumbIdle ==
    /\ t_pc = "start"
    /\ duration = FromNat(0)
    /\ num_thumbnails = 0
    /\ timestamps = << >>
    /\ frame_data = << >>
    /\ tasks = << >>
    /\ yielded = {}
    /\ thumbnail_files = << >>
    /\ t_temp_dir = "none"
    /\ t_ret = NoResult

NoRun == [pc |-> "none", processor |-> "none", keep_tmp_files |-> FALSE,
          pending |-> "none", exit_code |-> 0]

\* a 1920x1080 source sampled at width 320
DefaultFrameSize == [orig_width |-> 1920, orig_height |-> 1080, output_width |-> 320]

ScriptsIdle ==
    /\ runs = [r \in Runs |-> NoRun]
    /\ temp = "absent"
    /\ probe = NoResult

AudioInput == [is_video |-> FALSE, usable |-> TRUE]

\* get_audio_offset is not called
AlignIdle ==
    /\ a_call = [file1 |-> AudioInput, file2 |-> AudioInput,
                 technique |-> "correlation_spectrogram"]
    /\ a_pc = "none"
    /\ a_temp_dir = "none"
    /\ rmtree_calls = 0
    /\ temp_files_to_cleanup = << >>
    /\ a_outcome = "none"
    /\ a_pending = "none"
    /\ a_ret = NoResult


\* neither create_video_from_thumbs nor create_video is called
AssembleIdle ==
    /\ v_call = [variant |-> "utils", thumbnails_input |-> [kind |-> "directory", files |-> << >>],
                 audio_ok |-> TRUE]
    /\ v_pc = "none"
    /\ v_thumbnail_files = << >>
    /\ audio_clip = "none"
    /\ output_video = "none"
    /\ v_ret = NoResult

(***************************************************************************)
(* The thumbnail pipeline: BaseThumbnailGenerator.generate_thumbnails with *)
(* the three generators, and generate_thumbnails of the standalone script. *)
(***************************************************************************)
ThumbnailProcessors == {"manual-cv2", "manual-moviepy", "manual-ffmpeg", "standalone"}

RaisedResult(e) == [kind |-> "raised", error |-> e]

ExitResult == [kind |-> "exit", code |-> 1]

FilesResult(files) == [kind |-> "files", files |-> files]

\* an exception leaves the generators; the standalone script catches it and exits
\* (generate_thumbnails.py lines 81-83)
Failure(processor, e) == IF processor = "standalone" THEN ExitResult ELSE RaisedResult(e)

\* cap.read() after cap.set(CAP_PROP_POS_FRAMES, frame_number)
ReadOk(v, frame_number) == frame_number < v.total_frames /\ frame_number \notin v.unreadable

\* the sequence numbers i of the entries of frame_data
FrameData(processor, v, ts) ==
    LET all == [k \in 1..Len(ts) |-> k - 1]
        Kept(i) == ReadOk(v, FrameNumber(ts[i + 1], v.fps))
    IN  IF processor = "manual-cv2" THEN SelectSeq(all, Kept) ELSE all

TasksRunning == {k \in DOMAIN tasks : tasks[k] = "running"}

TasksQueued == {k \in DOMAIN tasks : tasks[k] = "queued"}

\* base.py lines 19-23, generate_thumbnails.py lines 30-38: the metadata of the
\* source; its duration is that of its frames at its frame rate
GetVideoMetadata ==
    /\ t_pc = "start"
    /\ args.processor \in ThumbnailProcessors
    /\ IF IsOpened(video)
       THEN /\ duration' = Duration(video.total_frames, video.fps)
            /\ t_pc' = "frames"
            /\ t_ret' = t_ret
       ELSE /\ duration' = duration
            /\ t_pc' = "ended"
            /\ t_ret' = Failure(args.processor, "ValueError")
    /\ UNCHANGED << inputVars, alignVars, assembleVars, scriptVars, downVars, num_thumbnails, timestamps, frame_data, tasks,
                    yielded, thumbnail_files, t_temp_dir >>

\* _generate_frame_data of the generator, generate_thumbnails.py lines 40-54.
\* The FFmpeg generator makes its directory and then reads the global name
\* ffmpeg_path, which its module never binds: NameError.
GenerateFrameData ==
    /\ t_pc = "frames"
    /\ IF args.processor = "manual-ffmpeg"
       THEN /\ t_temp_dir' = "exists"
            /\ t_ret' = RaisedResult("NameError")
            /\ t_pc' = "ended"
            /\ UNCHANGED << num_thumbnails, timestamps, frame_data >>
       ELSE /\ num_thumbnails' = NumThumbnails(args.processor, duration, args.output_fps)
            /\ timestamps' = Linspace(duration, num_thumbnails')
            /\ frame_data' = FrameData(args.processor, video, timestamps')
            /\ t_pc' = "submit"
            /\ UNCHANGED << t_temp_dir, t_ret >>
    /\ UNCHANGED << inputVars, alignVars, assembleVars, scriptVars, downVars, duration, tasks, yielded, thumbnail_files >>

\* base.py lines 42-44, generate_thumbnails.py lines 59-60: every frame is submitted
SubmitFrames ==
    /\ t_pc = "submit"
    /\ tasks' = [k \in 1..Len(frame_data) |-> "queued"]
    /\ t_pc' = "collect"
    /\ UNCHANGED << inputVars, alignVars, assembleVars, scriptVars, downVars, duration, num_thumbnails, timestamps, frame_data,
                    yielded, thumbnail_files, t_temp_dir, t_ret >>

\* the pool gives the oldest queued frame to a free worker process
TaskStart(k) ==
    /\ tasks[k] = "queued"
    /\ \A q \in TasksQueued : k <= q
    /\ Cardinality(TasksRunning) < args.max_workers
    /\ tasks' = [tasks EXCEPT ![k] = "running"]
    /\ UNCHANGED << inputVars, alignVars, assembleVars, scriptVars, downVars, t_pc, duration, num_thumbnails, timestamps,
                    frame_data, yielded, thumbnail_files, t_temp_dir, t_ret >>

\* _process_single_frame, process_frame: the thumbnail is saved, its path returned
TaskReturn(k) ==
    /\ tasks[k] = "running"
    /\ tasks' = [tasks EXCEPT ![k] = "done"]
    /\ UNCHANGED << inputVars, alignVars, assembleVars, scriptVars, downVars, t_pc, duration, num_thumbnails, timestamps,
                    frame_data, yielded, thumbnail_files, t_temp_dir, t_ret >>

\* _process_single_frame, process_frame raise (img.save fails, the worker dies)
TaskRaise(k) ==
    /\ tasks[k] = "running"
    /\ Cardinality({j \in DOMAIN tasks : tasks[j] = "raised"}) < MaxWorkerErrors
    /\ tasks' = [tasks EXCEPT ![k] = AfterRaise]
    /\ UNCHANGED << inputVars, alignVars, assembleVars, scriptVars, downVars, t_pc, duration, num_thumbnails, timestamps,
                    frame_data, yielded, thumbnail_files, t_temp_dir, t_ret >>

\* base.py lines 46-48, generate_thumbnails.py lines 62-64: as_completed yields a
\* finished future; future.result() returns its path or raises its exception
CollectFrame(k) ==
    /\ t_pc = "collect"
    /\ k \notin yielded
    /\ tasks[k] \in {"done", "raised"}
    /\ yielded' = yielded \cup {k}
    /\ IF tasks[k] = "done"
       THEN /\ thumbnail_files' = Append(thumbnail_files, OutputPath(frame_data[k]))
            /\ UNCHANGED << t_pc, t_ret >>
       ELSE /\ t_ret' = Failure(args.processor, "Exception")
            /\ t_pc' = "shutdown"
            /\ UNCHANGED thumbnail_files
    /\ UNCHANGED << inputVars, alignVars, assembleVars, scriptVars, downVars, duration, num_thumbnails, timestamps, frame_data,
                    tasks, t_temp_dir >>

\* base.py line 42, generate_thumbnails.py line 59: the exception leaves the
\* with statement, whose exit waits for every submitted future
FramesShutdown ==
    /\ t_pc = "shutdown"
    /\ Joined(tasks)
    /\ t_pc' = "ended"
    /\ UNCHANGED << inputVars, alignVars, assembleVars, scriptVars, downVars, duration, num_thumbnails, timestamps,
                    frame_data, tasks, yielded, thumbnail_files, t_temp_dir, t_ret >>

\* base.py line 53, generate_thumbnails.py lines 70-79
SortFiles ==
    /\ t_pc = "collect"
    /\ yielded = DOMAIN tasks
    /\ t_ret' = FilesResult(Sorted(thumbnail_files))
    /\ t_pc' = "ended"
    /\ UNCHANGED << inputVars, alignVars, assembleVars, scriptVars, downVars, duration, num_thumbnails, timestamps, frame_data,
                    tasks, yielded, thumbnail_files, t_temp_dir >>

(***************************************************************************)
(* The probes: extract_video_info and extract_fps.                         *)
(***************************************************************************)
MetadataResult(v) ==
    [kind |-> "metadata", fps |-> v.fps, frame_count |-> v.total_frames,
     duration |-> IF v.fps > 0 THEN Duration(v.total_frames, v.fps) ELSE FromNat(0)]

FpsResult(v) == [kind |-> "fps", fps |-> v.fps]

\* extract_video_info.py lines 7-44
ExtractVideoInfo ==
    /\ d_pc = "start" /\ t_pc = "start"
    /\ probe = NoResult
    /\ probe' = IF IsOpened(video) THEN MetadataResult(video) ELSE RaisedResult("Exception")
    /\ UNCHANGED << inputVars, alignVars, assembleVars, downVars, thumbVars, runs, temp >>

\* extract_fps.py lines 5-20
ExtractFps ==
    /\ d_pc = "start" /\ t_pc = "start"
    /\ probe = NoResult
    /\ probe' = IF IsOpened(video) THEN FpsResult(video) ELSE RaisedResult("Exception")
    /\ UNCHANGED << inputVars, alignVars, assembleVars, downVars, thumbVars, runs, temp >>

(***************************************************************************)
(* create_sample_video.main.                                               *)
(***************************************************************************)
AutoProcessors == {"auto-ffmpeg", "auto-cv2"}

ManualProcessors == {"manual-cv2", "manual-moviepy", "manual-ffmpeg"}

\* create_sample_video.py line 100: the temporary directory of a run
TEMP_DIR(r) == "temp"

\* the exit code of the interpreter: main returned (line 178 drops the value),
\* sys.exit(1) was called, or KeyboardInterrupt went uncaught
ExitCode(pending) ==
    CASE pending = "return" -> 0
      [] pending = "SystemExit" -> 1
      [] pending = "KeyboardInterrupt" -> 130

\* lines 105-124: the branch on the processor. An auto processor's process is
\* called; a manual one imports extract_audio from utils.extract_audio, which
\* defines no such name: ImportError
MainDispatch(r) ==
    /\ runs[r].pc = "start"
    /\ runs' = [runs EXCEPT ![r].pc =
                   IF runs[r].processor \in AutoProcessors THEN "process" ELSE "except"]
    /\ UNCHANGED << inputVars, alignVars, assembleVars, downVars, thumbVars, temp, probe >>

\* ffmpeg_downsampler.py lines 18-36: a missing input is printed and None
\* returned; otherwise the command list reads the global name ffmpeg_path,
\* which the module never binds: NameError, caught by main
FFmpegProcess(r) ==
    /\ runs[r].pc = "process"
    /\ runs[r].processor = "auto-ffmpeg"
    /\ runs' = IF ~video.exists
               THEN [runs EXCEPT ![r].pc = "finally", ![r].pending = "return"]
               ELSE [runs EXCEPT ![r].pc = "except"]
    /\ UNCHANGED << inputVars, alignVars, assembleVars, downVars, thumbVars, temp, probe >>

\* lines 106-121: process of the CV2 downsampler is over: main returns its
\* value, or the KeyboardInterrupt goes through main, whose except clause
\* (except Exception) does not catch it
MainProcessEnds ==
    /\ runs[1].pc = "process"
    /\ runs[1].processor = "auto-cv2"
    /\ d_pc \in {"returned", "propagated"}
    /\ runs' = [runs EXCEPT ![1].pc = "finally",
                            ![1].pending = IF d_pc = "returned" THEN "return"
                                           ELSE "KeyboardInterrupt"]
    /\ UNCHANGED << inputVars, alignVars, assembleVars, downVars, thumbVars, temp, probe >>

\* lines 163-165: except Exception prints and calls sys.exit(1)
MainExcept(r) ==
    /\ runs[r].pc = "except"
    /\ runs' = [runs EXCEPT ![r].pc = "finally", ![r].pending = "SystemExit"]
    /\ UNCHANGED << inputVars, alignVars, assembleVars, downVars, thumbVars, temp, probe >>

\* lines 93-95, 167-170, 178: the finally clause removes TEMP_DIR if it exists,
\* unless keep_tmp_files; then the interpreter exits
MainFinally(r) ==
    /\ runs[r].pc = "finally"
    /\ temp' = IF ~runs[r].keep_tmp_files /\ TEMP_DIR(r) = "temp" THEN "absent" ELSE temp
    /\ runs' = [runs EXCEPT ![r].pc = "exited",
                            ![r].exit_code = ExitCode(runs[r].pending)]
    /\ UNCHANGED << inputVars, alignVars, assembleVars, downVars, thumbVars, probe >>

(***************************************************************************)
(* align_videos.get_audio_offset, lines 64-321.                            *)
(***************************************************************************)
\* lines 188-198: the techniques that have a recognizer
Techniques == {"fingerprints", "correlation", "correlation_spectrogram", "visual"}

ReturnedResult(v) == [kind |-> "returned", value |-> v]

\* shutil.rmtree(temp_dir) without ignore_errors: a directory that exists is
\* removed, one that is gone raises FileNotFoundError
Rmtree(dir) ==
    IF dir = "exists" THEN [dir |-> "absent", raised |-> FALSE]
    ELSE [dir |-> dir, raised |-> TRUE]

AlignInput(i) == IF i = 1 THEN a_call.file1 ELSE a_call.file2

\* lines 132-140
AlignBegin ==
    /\ a_pc = "start"
    /\ a_temp_dir' = "exists"
    /\ temp_files_to_cleanup' = << >>
    /\ a_pc' = "extract1"
    /\ UNCHANGED << inputVars, assembleVars, downVars, thumbVars, scriptVars, a_call, rmtree_calls,
                    a_outcome, a_pending, a_ret >>

\* lines 143-156 (i = 1) and 158-171 (i = 2): the audio of a video input is
\* extracted; extract_audio_single ends a failed extraction with sys.exit(1)
\* (utils/extract_audio.py lines 207-209)
ExtractInput(i) ==
    /\ a_pc = (IF i = 1 THEN "extract1" ELSE "extract2")
    /\ IF AlignInput(i).is_video /\ ~AlignInput(i).usable
       THEN /\ a_ret' = RaisedResult("SystemExit")
            /\ a_pc' = "ended"
            /\ UNCHANGED temp_files_to_cleanup
       ELSE /\ temp_files_to_cleanup' =
                  IF AlignInput(i).is_video THEN Append(temp_files_to_cleanup, i)
                  ELSE temp_files_to_cleanup
            /\ a_pc' = (IF i = 1 THEN "extract2" ELSE "copy")
            /\ UNCHANGED a_ret
    /\ UNCHANGED << inputVars, assembleVars, downVars, thumbVars, scriptVars, a_call, a_temp_dir,
                    rmtree_calls, a_outcome, a_pending >>

\* lines 174-179: shutil.copy raises if an audio input cannot be read
CopyInputs ==
    /\ a_pc = "copy"
    /\ IF \E i \in {1, 2} : ~AlignInput(i).usable
       THEN /\ a_ret' = RaisedResult("FileNotFoundError")
            /\ a_pc' = "ended"
       ELSE /\ a_pc' = "recognizer"
            /\ UNCHANGED a_ret
    /\ UNCHANGED << inputVars, assembleVars, downVars, thumbVars, scriptVars, a_call, a_temp_dir,
                    rmtree_calls, temp_files_to_cleanup, a_outcome, a_pending >>

\* lines 188-223: the recognizer of the technique; another technique removes
\* the directory and raises ValueError. A recognizer object is never false,
\* so lines 211-217 are not taken.
ChooseRecognizer ==
    /\ a_pc = "recognizer"
    /\ IF a_call.technique \in Techniques
       THEN /\ a_pc' = "align"
            /\ UNCHANGED << a_temp_dir, rmtree_calls, a_ret >>
       ELSE /\ rmtree_calls' = rmtree_calls + 1
            /\ a_temp_dir' = Rmtree(a_temp_dir).dir
            /\ a_ret' = RaisedResult("ValueError")
            /\ a_pc' = "ended"
    /\ UNCHANGED << inputVars, assembleVars, downVars, thumbVars, scriptVars, a_call,
                    temp_files_to_cleanup, a_outcome, a_pending >>

AlignOutcomes == {"results", "empty", "KeyboardInterrupt", "error"}

\* lines 227-276: ad.align gives results (lines 246-266 then fall through),
\* gives none (lines 237-244: rmtree, return None), is interrupted (lines
\* 268-276: rmtree, return None) or raises another exception, which no
\* except clause takes; then the finally clause begins
AlignCall(outcome) ==
    /\ a_pc = "align"
    /\ a_outcome' = outcome
    /\ IF outcome \in {"empty", "KeyboardInterrupt"}
       THEN /\ rmtree_calls' = rmtree_calls + 1
            /\ a_temp_dir' = Rmtree(a_temp_dir).dir
            /\ a_pending' = "return None"
       ELSE /\ a_pending' = (IF outcome = "error" THEN "raise" ELSE "none")
            /\ UNCHANGED << rmtree_calls, a_temp_dir >>
    /\ a_pc' = "finally"
    /\ UNCHANGED << inputVars, assembleVars, downVars, thumbVars, scriptVars, a_call,
                    temp_files_to_cleanup, a_ret >>

\* lines 277-282: the finally clause calls shutil.rmtree(temp_dir) whatever
\* happened before; an exception it raises replaces the pending return
AlignFinally ==
    /\ a_pc = "finally"
    /\ rmtree_calls' = rmtree_calls + 1
    /\ a_temp_dir' = Rmtree(a_temp_dir).dir
    /\ IF Rmtree(a_temp_dir).raised
       THEN /\ a_ret' = RaisedResult("FileNotFoundError")
            /\ a_pc' = "ended"
       ELSE IF a_pending = "return None"
       THEN /\ a_ret' = ReturnedResult("None")
            /\ a_pc' = "ended"
       ELSE IF a_pending = "raise"
       THEN /\ a_ret' = RaisedResult("Exception")
            /\ a_pc' = "ended"
       ELSE /\ a_pc' = "output"
            /\ UNCHANGED a_ret
    /\ UNCHANGED << inputVars, assembleVars, downVars, thumbVars, scriptVars, a_call,
                    temp_files_to_cleanup, a_outcome, a_pending >>

\* lines 287-321: the results are parsed and returned
AlignOutput ==
    /\ a_pc = "output"
    /\ a_ret' = ReturnedResult("output")
    /\ a_pc' = "ended"
    /\ UNCHANGED << inputVars, assembleVars, downVars, thumbVars, scriptVars, a_call, a_temp_dir,
                    rmtree_calls, temp_files_to_cleanup, a_outcome, a_pending >>

(***************************************************************************)
(* Video assembly: create_video_from_thumbs of utils (lines 61-145) and    *)
(* create_video of the standalone script (lines 46-127).                   *)
(***************************************************************************)
\* an empty list passes the test of the thumbnail list
NoThumbnailsUnchecked(files) == FALSE

\* utils line 83, standalone line 72: `if not thumbnail_files`
NoThumbnails(files) == Len(files) = 0

\* utils lines 143-145: every exception becomes sys.exit(1);
\* standalone lines 125-127: the exception is printed and raised again
AssemblyError(variant, e) ==
    RaisedResult(IF variant = "utils" THEN "SystemExit" ELSE e)

\* utils lines 70-86, standalone lines 51-75: the thumbnail input is a JSON
\* file, a directory, a JSON string or (standalone) a list; a string that is
\* not JSON raises, and so does an empty list of thumbnails
ResolveThumbnails ==
    /\ v_pc = "start"
    /\ IF v_call.thumbnails_input.kind = "bad_json"
       THEN /\ v_ret' = AssemblyError(v_call.variant, "ValueError")
            /\ v_pc' = "ended"
            /\ UNCHANGED v_thumbnail_files
       ELSE /\ v_thumbnail_files' = v_call.thumbnails_input.files
            /\ IF NoThumbnails(v_thumbnail_files')
               THEN /\ v_ret' = AssemblyError(v_call.variant, "ValueError")
                    /\ v_pc' = "ended"
               ELSE /\ v_pc' = (IF v_call.variant = "standalone" THEN "verify" ELSE "audio")
                    /\ UNCHANGED v_ret
    /\ UNCHANGED << inputVars, alignVars, downVars, thumbVars, scriptVars, v_call, audio_clip,
                    output_video >>

\* standalone lines 77-87: every thumbnail must be a file
VerifyThumbnails ==
    /\ v_pc = "verify"
    /\ IF \E k \in DOMAIN v_thumbnail_files : ~v_thumbnail_files[k]
       THEN /\ v_ret' = AssemblyError(v_call.variant, "ValueError")
            /\ v_pc' = "ended"
       ELSE /\ v_pc' = "audio"
            /\ UNCHANGED v_ret
    /\ UNCHANGED << inputVars, alignVars, downVars, thumbVars, scriptVars, v_call,
                    v_thumbnail_files, audio_clip, output_video >>

\* utils lines 88-97, standalone lines 89-97: the audio is loaded
LoadAudio ==
    /\ v_pc = "audio"
    /\ IF v_call.audio_ok
       THEN /\ audio_clip' = "loaded"
            /\ v_pc' = "write"
            /\ UNCHANGED v_ret
       ELSE /\ v_ret' = AssemblyError(v_call.variant, "OSError")
            /\ v_pc' = "ended"
            /\ UNCHANGED audio_clip
    /\ UNCHANGED << inputVars, alignVars, downVars, thumbVars, scriptVars, v_call,
                    v_thumbnail_files, output_video >>

\* utils lines 100-141, standalone lines 99-123: the clip of the images is
\* made and written with the audio; an image that cannot be read raises
WriteVideoFile ==
    /\ v_pc = "write"
    /\ IF \E k \in DOMAIN v_thumbnail_files : ~v_thumbnail_files[k]
       THEN /\ v_ret' = AssemblyError(v_call.variant, "OSError")
            /\ UNCHANGED output_video
       ELSE /\ output_video' = "written"
            /\ v_ret' = ReturnedResult("output_path")
    /\ v_pc' = "ended"
    /\ UNCHANGED << inputVars, alignVars, downVars, thumbVars, scriptVars, v_call,
                    v_thumbnail_files, audio_clip >>

(***************************************************************************)
(* Specifications.                                                         *)
(***************************************************************************)
NextDown ==
    \/ ProcessMissingInput
    \/ ProcessBegin
    \/ OpenCapture
    \/ SampleFrames
    \/ DivideChunks
    \/ SubmitChunk
    \/ StartCollecting
    \/ Interrupt
    \/ PoolShutdown
    \/ \E c \in DOMAIN futures : WorkerStart(c)
    \/ \E c \in DOMAIN futures : WorkerReturn(c)
    \/ \E c \in DOMAIN futures : WorkerRaise(c)
    \/ \E c \in DOMAIN futures : CollectChunk(c)
    \/ ReleaseWriter
    \/ CheckFfmpeg
    \/ ExtractAudio
    \/ Remux
    \/ Report
    \/ HandleException
    \/ Cleanup

Sources(frames, rates) ==
    {v \in [exists : BOOLEAN, opens : BOOLEAN, total_frames : frames, fps : rates,
            unreadable : {u \in SUBSET (0..(MaxRunFrames - 1)) :
                             Cardinality(u) <= MaxUnreadable}] :
        /\ v.exists \/ ~v.opens
        /\ v.unreadable \subseteq 0..(v.total_frames - 1)}

\* a run of process on a short source, one with no frame rate included
InitDown ==
    /\ video \in Sources(0..MaxRunFrames, RunFps \cup {0})
    /\ args \in [processor : {"auto-cv2"}, output_fps : RunFps, chunk_size : 1..2,
                 max_workers : 1..MaxWorkers]
    /\ frame_size = DefaultFrameSize
    /\ DownIdle
    /\ ThumbIdle
    /\ AlignIdle
    /\ AssembleIdle
    /\ ScriptsIdle

SpecDown == InitDown /\ [][NextDown]_vars

NextThumbs ==
    \/ GetVideoMetadata
    \/ GenerateFrameData
    \/ SubmitFrames
    \/ \E k \in DOMAIN tasks : TaskStart(k)
    \/ \E k \in DOMAIN tasks : TaskReturn(k)
    \/ \E k \in DOMAIN tasks : TaskRaise(k)
    \/ \E k \in DOMAIN tasks : CollectFrame(k)
    \/ FramesShutdown
    \/ SortFiles

\* a long source of one frame a second of which only the last two frames can be read
LongSource ==
    [exists |-> TRUE, opens |-> TRUE, total_frames |-> LongFrames, fps |-> 1,
     unreadable |-> 0..(LongFrames - 3)]

\* the long source with every frame readable
LongReadableSource == [LongSource EXCEPT !.unreadable = {}]

\* a thumbnail run on a short source, or of the CV2 generator on the long one
InitThumbs ==
    /\ \/ /\ video \in Sources(0..MaxRunFrames, RunFps)
          /\ args \in [processor : ThumbnailProcessors, output_fps : RunFps,
                       chunk_size : {1}, max_workers : 1..MaxWorkers]
       \/ /\ video = LongSource
          /\ args \in [processor : {"manual-cv2"}, output_fps : {1}, chunk_size : {1},
                       max_workers : 1..MaxWorkers]
    /\ frame_size = DefaultFrameSize
    /\ DownIdle
    /\ ThumbIdle
    /\ AlignIdle
    /\ AssembleIdle
    /\ ScriptsIdle

SpecThumbs == InitThumbs /\ [][NextThumbs]_vars

\* the sampling steps alone, on longer sources
InitSampling ==
    /\ \/ /\ video \in [exists : {TRUE}, opens : {TRUE}, total_frames : 0..MaxFrames,
                        fps : SourceFps, unreadable : {{}}]
          /\ args \in [processor : {"auto-cv2"}, output_fps : 1..MaxOutputFps,
                       chunk_size : 1..MaxChunkSize, max_workers : {1}]
       \/ /\ video \in [exists : {TRUE}, opens : {TRUE},
                        total_frames : 0..MaxThumbFrames, fps : SourceFps,
                        unreadable : {{}}]
          /\ args \in [processor : ThumbnailProcessors, output_fps : 1..MaxOutputFps,
                       chunk_size : {1}, max_workers : {1}]
       \/ /\ video = LongReadableSource
          /\ args \in [processor : {"manual-cv2", "manual-moviepy"}, output_fps : {1},
                       chunk_size : {1}, max_workers : {1}]
    /\ frame_size = DefaultFrameSize
    /\ DownIdle
    /\ ThumbIdle
    /\ AlignIdle
    /\ AssembleIdle
    /\ ScriptsIdle

NextSampling ==
    \/ ProcessBegin
    \/ OpenCapture
    \/ SampleFrames
    \/ DivideChunks
    \/ GetVideoMetadata
    \/ GenerateFrameData

SpecSampling == InitSampling /\ [][NextSampling]_vars

\* runs of main: run 1 with any processor, alone or beside a second run
NextMain ==
    \/ NextDown
    \/ \E r \in Runs : MainDispatch(r)
    \/ \E r \in Runs : FFmpegProcess(r)
    \/ MainProcessEnds
    \/ \E r \in Runs : MainExcept(r)
    \/ \E r \in Runs : MainFinally(r)

NewRun(processor, keep) ==
    [pc |-> "start", processor |-> processor, keep_tmp_files |-> keep,
     pending |-> "none", exit_code |-> 0]

InitMain ==
    /\ video \in Sources(0..MaxMainFrames, {1})
    /\ args \in [processor : AutoProcessors \cup ManualProcessors, output_fps : {1},
                 chunk_size : {1}, max_workers : {1}]
    /\ frame_size = DefaultFrameSize
    /\ DownIdle
    /\ ThumbIdle
    /\ AlignIdle
    /\ AssembleIdle
    /\ \E keep \in [Runs -> BOOLEAN] :
       \E second \in {"none", "auto-ffmpeg"} \cup ManualProcessors :
          runs = [r \in Runs |->
                    IF r = 1 THEN NewRun(args.processor, keep[r])
                    ELSE IF second = "none" THEN NoRun ELSE NewRun(second, keep[r])]
    /\ temp \in {"absent", "exists"}
    /\ probe = NoResult

SpecMain == InitMain /\ [][NextMain]_vars

\* a probe of the source, then process or a thumbnail run on it
NextProbe ==
    \/ ExtractVideoInfo
    \/ ExtractFps
    \/ NextDown
    \/ NextThumbs

InitProbe ==
    /\ video \in Sources(0..MaxRunFrames, RunFps)
    /\ args \in [processor : {"auto-cv2"} \cup ThumbnailProcessors, output_fps : {1},
                 chunk_size : {1}, max_workers : 1..MaxWorkers]
    /\ frame_size = DefaultFrameSize
    /\ DownIdle
    /\ ThumbIdle
    /\ AlignIdle
    /\ AssembleIdle
    /\ ScriptsIdle

SpecProbe == InitProbe /\ [][NextProbe]_vars

\* thumbnail runs that differ only in the order in which the workers complete
InitRerun ==
    /\ video \in Sources(0..MaxRunFrames, {1})
    /\ args \in [processor : ThumbnailProcessors, output_fps : {1}, chunk_size : {1},
                 max_workers : 1..MaxWorkers]
    /\ frame_size = DefaultFrameSize
    /\ DownIdle
    /\ ThumbIdle
    /\ AlignIdle
    /\ AssembleIdle
    /\ ScriptsIdle

SpecRerun == InitRerun /\ [][NextThumbs]_vars

\* the first steps of process on sources and output widths of every small size
NextResize ==
    \/ ProcessBegin
    \/ OpenCapture

InitResize ==
    /\ video = [exists |-> TRUE, opens |-> TRUE, total_frames |-> 1, fps |-> 1,
                unreadable |-> {}]
    /\ args = [processor |-> "auto-cv2", output_fps |-> 1, chunk_size |-> 1,
               max_workers |-> 1]
    /\ frame_size \in [orig_width : 1..MaxSide, orig_height : 1..MaxSide,
                       output_width : 1..MaxSide] \cup {DefaultFrameSize}
    /\ DownIdle
    /\ ThumbIdle
    /\ AlignIdle
    /\ AssembleIdle
    /\ ScriptsIdle

SpecResize == InitResize /\ [][NextResize]_vars

\* one call of get_audio_offset
NextAlign ==
    \/ AlignBegin
    \/ \E i \in {1, 2} : ExtractInput(i)
    \/ CopyInputs
    \/ ChooseRecognizer
    \/ \E outcome \in AlignOutcomes : AlignCall(outcome)
    \/ AlignFinally
    \/ AlignOutput

InitAlign ==
    /\ video = [exists |-> TRUE, opens |-> TRUE, total_frames |-> 1, fps |-> 1,
                unreadable |-> {}]
    /\ args = [processor |-> "auto-cv2", output_fps |-> 1, chunk_size |-> 1,
               max_workers |-> 1]
    /\ frame_size = DefaultFrameSize
    /\ DownIdle
    /\ ThumbIdle
    /\ AssembleIdle
    /\ ScriptsIdle
    /\ a_call \in [file1 : [is_video : BOOLEAN, usable : BOOLEAN],
                    file2 : [is_video : BOOLEAN, usable : BOOLEAN],
                    technique : Techniques \cup {"other"}]
    /\ a_pc = "start"
    /\ a_temp_dir = "none"
    /\ rmtree_calls = 0
    /\ temp_files_to_cleanup = << >>
    /\ a_outcome = "none"
    /\ a_pending = "none"
    /\ a_ret = NoResult

SpecAlign == InitAlign /\ [][NextAlign]_vars

\* one call of the assembly function, and a manual run of main
NextAssemble ==
    \/ ResolveThumbnails
    \/ VerifyThumbnails
    \/ LoadAudio
    \/ WriteVideoFile
    \/ \E r \in Runs : MainDispatch(r)
    \/ \E r \in Runs : MainExcept(r)
    \/ \E r \in Runs : MainFinally(r)

\* the thumbnail inputs of a variant: a list is taken by the standalone
\* function only, and the files that glob finds in a directory are files
ThumbnailInputs(variant) ==
    LET lists == UNION {[1..n -> BOOLEAN] : n \in 0..MaxAssemblyThumbs}
    IN  [kind : {"json_file", "json_string"} \cup
                (IF variant = "standalone" THEN {"list"} ELSE {}),
         files : lists]
        \cup [kind : {"directory"}, files : {f \in lists : \A k \in DOMAIN f : f[k]}]
        \cup {[kind |-> "bad_json", files |-> << >>]}

InitAssemble ==
    /\ video \in Sources(0..MaxMainFrames, {1})
    /\ args \in [processor : ManualProcessors, output_fps : {1}, chunk_size : {1},
                 max_workers : {1}]
    /\ frame_size = DefaultFrameSize
    /\ DownIdle
    /\ ThumbIdle
    /\ AlignIdle
    /\ \E keep \in BOOLEAN :
          runs = [r \in Runs |-> IF r = 1 THEN NewRun(args.processor, keep) ELSE NoRun]
    /\ temp \in {"absent", "exists"}
    /\ probe = NoResult
    /\ \E variant \in {"utils", "standalone"} :
          v_call \in [variant : {variant}, thumbnails_input : ThumbnailInputs(variant),
                      audio_ok : BOOLEAN]
    /\ v_pc = "start"
    /\ v_thumbnail_files = << >>
    /\ audio_clip = "none"
    /\ output_video = "none"
    /\ v_ret = NoResult

SpecAssemble == InitAssemble /\ [][NextAssemble]_vars

(***************************************************************************)
(* Properties.                                                             *)
(***************************************************************************)
\* the as_completed loop of process is over
BatchDone == d_pc \notin {"start", "open", "sample", "chunk", "submit", "collect", "shutdown"}

\* frame_indices is computed
Sampled == d_pc \in {"chunk", "submit", "collect", "ffmpeg", "audio", "remux", "report"}

Ascending(s) == \A i, j \in 1..Len(s) : i < j => s[i] < s[j]

Occurrences(s, x) == Cardinality({i \in 1..Len(s) : s[i] = x})

RECURSIVE Flatten(_)
Flatten(ss) == IF ss = << >> THEN << >> ELSE Head(ss) \o Flatten(Tail(ss))

\* the failures the run reports: the chunks its progress line does not count
\* as completed (cv2_downsampler.py lines 137-160)
FailedCount == Len(chunks) - completed

\* C1: whatever the order in which the chunk futures complete, the frames
\* written to the output video are in ascending order of source frame index.
C1_WrittenAscending == BatchDone => Ascending(written)

\* C2: whatever the order in which the frame futures complete and however
\* many thumbnails there are, the returned list of paths is in the order of
\* the sequence number i of the thumbnails.
C2_FilesInSequenceOrder ==
    t_ret.kind = "files" =>
        t_ret.files = [k \in 1..Len(frame_data) |-> OutputPath(frame_data[k])]

\* a run of process that returned the output path, in which every chunk
\* worker returned and exactly one sampled frame could not be read
OneFrameFails ==
    /\ d_pc = "returned"
    /\ ret.kind = "path"
    /\ \A c \in DOMAIN futures : futures[c] = "done"
    /\ Cardinality(Range(frame_indices) \cap video.unreadable) = 1

\* C3: when exactly one of the n sampled frames cannot be read, the run
\* writes n - 1 frames, every other sampled frame exactly once, and it
\* reports one failed frame.
C3_OneFailedFrameReported ==
    OneFrameFails
    => /\ Len(written) = Len(frame_indices) - 1
       /\ \A f \in Range(frame_indices) \ video.unreadable : Occurrences(written, f) = 1
       /\ FailedCount = 1

\* C4: the failure of one frame does not abort the batch: the thumbnail
\* pipeline returns the path of every frame whose worker returned one, and
\* process writes the frames of every chunk whose worker returned.
C4_OtherResultsKept ==
    /\ t_pc = "ended" =>
          \A k \in DOMAIN tasks :
              tasks[k] = "done" =>
                  /\ t_ret.kind = "files"
                  /\ OutputPath(frame_data[k]) \in Range(t_ret.files)
    /\ BatchDone =>
          \A c \in DOMAIN futures :
              futures[c] = "done" => Range(results[c]) \subseteq Range(written)

\* C5: when a run has ended, no temporary directory it made exists any more.
C5_TempDirsRemoved ==
    /\ d_pc = "returned" => temp_dir # "exists"
    /\ t_pc = "ended" => t_temp_dir # "exists"

\* C6: for a source of positive duration and an output rate no higher than
\* the source rate, a thumbnail sampler computes exactly
\* max(5, floor(duration * output_fps)) timestamps, strictly increasing and
\* all less than the duration.
C6_TimestampCount ==
    (t_pc = "submit" /\ video.total_frames > 0 /\ args.output_fps <= video.fps)
    => /\ Len(timestamps) =
              Max(MinThumbnails, (video.total_frames * args.output_fps) \div video.fps)
       /\ \A i \in 1..(Len(timestamps) - 1) : FLess(timestamps[i], timestamps[i + 1])
       /\ \A i \in 1..Len(timestamps) : FLess(timestamps[i], duration)

\* C7: for 0 < output_fps < orig_fps the sampled indices are exactly
\* floor(i * step), i in [0, floor(total_frames / step)), step the exact
\* quotient orig_fps / output_fps.
C7_ExactIndices ==
    (Sampled /\ args.output_fps < video.fps)
    => frame_indices =
           [i \in 1..((video.total_frames * args.output_fps) \div video.fps) |->
               ((i - 1) * video.fps) \div args.output_fps]

\* C8: for output_fps >= orig_fps every source frame is kept once, and no
\* sampler selects more frames than the source has, the thumbnail
\* generators with their count int(duration * output_fps) included.
C8_NeverMoreThanSource ==
    /\ (Sampled /\ args.output_fps >= video.fps)
           => frame_indices = [i \in 1..video.total_frames |-> i - 1]
    /\ Sampled => Len(frame_indices) <= video.total_frames
    /\ (t_pc = "submit" /\ args.processor # "standalone")
           => num_thumbnails <= video.total_frames

\* C9: the chunks partition the sampled list: their concatenation is the
\* list, each chunk is non-empty and no longer than chunk_size, and only the
\* last chunk may be shorter than chunk_size.
C9_ChunksPartition ==
    d_pc = "submit" =>
        /\ Flatten(chunks) = frame_indices
        /\ \A c \in DOMAIN chunks :
              /\ Len(chunks[c]) >= 1
              /\ Len(chunks[c]) <= args.chunk_size
              /\ c < Len(chunks) => Len(chunks[c]) = args.chunk_size

C9_Witness ==
    /\ d_pc = "submit"
    /\ Len(chunks) >= 3
    /\ Len(chunks[Len(chunks)]) < args.chunk_size

C11_EncoderFailureIsFatal ==
    /\ exit_codes.audio # 0 => ~remux.merge /\ ~remux.copy
    /\ (exit_codes.audio # 0 \/ exit_codes.merge # 0) => ret.kind # "path"

\* a fatal stage error happened in run r: process of the CV2 downsampler
\* returned an error or one of its encoder commands failed, the FFmpeg
\* downsampler did not find the input, or an exception reached main
StageFailed(r) ==
    \/ /\ runs[r].processor = "auto-cv2"
       /\ ret.kind = "error" \/ exit_codes.audio # 0 \/ exit_codes.merge # 0
    \/ runs[r].processor = "auto-ffmpeg" /\ ~video.exists
    \/ runs[r].pending = "SystemExit"

\* C12: a run of main in which a fatal stage error happened ends with a
\* non-zero exit code, whatever the processor.
C12_FatalErrorExitsNonZero ==
    \A r \in Runs : runs[r].pc = "exited" /\ StageFailed(r) => runs[r].exit_code # 0

\* C13: a source that cannot be opened gives no metadata: the probes and
\* the metadata step of the generators raise, and process submits no chunk,
\* writes no output file and returns an error.
C13_UnopenableSourceFails ==
    ~video.opens =>
        /\ probe.kind \in {"none", "raised"}
        /\ t_pc \in {"start", "ended"}
        /\ t_pc = "ended" => t_ret.kind \in {"raised", "exit"}
        /\ futures = << >>
        /\ output_file = "none"
        /\ d_pc = "returned" => ret.kind = "error"

C13_Witness ==
    /\ video.exists /\ ~video.opens
    /\ probe.kind = "raised"
    /\ d_pc = "returned" /\ ret.kind = "error"

\* the source has no duration or no frame rate
EmptySource == video.total_frames = 0 \/ video.fps = 0

\* C14: on a source that opens but has no duration or no frame rate, process
\* samples no frame and ends by reporting an error.
C14_EmptySourceReported ==
    video.opens /\ EmptySource =>
        /\ frame_indices = << >>
        /\ d_pc = "returned" => ret.kind = "error"

Interrupted == exc = "KeyboardInterrupt"

\* C15: after an interrupt during the batch of process no further chunk is
\* submitted, process does not leave the pool before every submitted chunk
\* has finished, it never returns a value but lets the interrupt go on to
\* the caller, and it does so only from the finally clause that removes
\* the temporary directory.
C15_InterruptHonoured ==
    /\ [](Interrupted => ret.kind = "none" /\ d_pc \in {"shutdown", "finally", "propagated"})
    /\ [](Interrupted /\ d_pc \in {"finally", "propagated"} => Finished = DOMAIN futures)
    /\ [][Interrupted => Len(futures') = Len(futures)]_vars
    /\ [][d_pc' = "propagated" /\ d_pc # "propagated" => Interrupted /\ d_pc = "finally"]_vars

C15_Witness ==
    /\ Interrupted
    /\ d_pc = "propagated"
    /\ futures # << >>
    /\ collected # DOMAIN futures

\* run r of main is under way
Executing(r) == runs[r].pc \notin {"none", "exited"}

\* C16: two runs of main with manual processors that are under way at the
\* same time have different temporary directories.
C16_OwnTempDirectory ==
    \A r1, r2 \in Runs :
        /\ r1 # r2
        /\ Executing(r1) /\ runs[r1].processor \in ManualProcessors
        /\ Executing(r2) /\ runs[r2].processor \in ManualProcessors
        => TEMP_DIR(r1) # TEMP_DIR(r2)

\* C17: the pool is joined before the pool call is left: process goes past
\* its with statement, and _process_frames ends, only when every submitted
\* future has finished, whether the collection loop ended or raised.
C17_PoolJoined ==
    /\ BatchDone => \A c \in DOMAIN futures : futures[c] \in {"done", "raised"}
    /\ t_pc = "ended" => \A k \in DOMAIN tasks : tasks[k] \in {"done", "raised"}

C17_Witness ==
    /\ t_pc = "ended"
    /\ t_ret.kind \in {"raised", "exit"}
    /\ yielded # DOMAIN tasks

\* C18: the progress counter of process counts every chunk whose future the
\* as_completed loop has taken, usable result or not, never exceeds the
\* number of chunks, and equals it when the loop is over.
C18_ProgressCounter ==
    /\ d_pc = "collect" => completed = Cardinality(collected)
    /\ completed <= Len(chunks)
    /\ d_pc = "ffmpeg" => completed = Len(chunks)

\* C19: the thumbnails of a run that ended with its list of files are
\* numbered 0..m-1 without a gap, m the number of thumbnails.
C19_DenseNumbers ==
    t_ret.kind = "files" =>
        {frame_data[k] : k \in DOMAIN frame_data} = 0..(Len(frame_data) - 1)

\* C20: the output paths given to the frame tasks of one run are all
\* different, for runs of more than 999 thumbnails too.
C20_DistinctPaths ==
    Cardinality({OutputPath(frame_data[k]) : k \in DOMAIN frame_data}) = Len(frame_data)

C20_Witness ==
    /\ t_pc = "submit"
    /\ Len(frame_data) > 1000

\* height is an integer nearest to target_width * source_height / source_width
Nearest(height, target_width, source_height, source_width) ==
    LET twice == 2 * height * source_width - 2 * target_width * source_height
    IN  twice <= source_width /\ -twice <= source_width

\* C21: the output height is target width * source height / source width
\* rounded to the nearest integer, in process (new_height) and in the
\* height the thumbnail workers ask for.
C21_HeightRounded ==
    d_pc = "sample" =>
        /\ Nearest(new_height, frame_size.output_width, frame_size.orig_height,
                   frame_size.orig_width)
        /\ Nearest(ThumbnailHeight(frame_size.orig_height, frame_size.output_width,
                                   frame_size.orig_width),
                   frame_size.output_width, frame_size.orig_height, frame_size.orig_width)

\* the resize variant of the run
RunVariant == IF use_cuda THEN "gpu" ELSE "cpu"

\* C22: the GPU or CPU choice of a run of process is made before any chunk
\* is submitted, every call is given that choice and every frame of every
\* chunk is resized with it; with no device the whole run is on the CPU.
C22_OneVariantPerRun ==
    /\ [](\A c \in DOMAIN calls : calls[c].use_cuda = use_cuda)
    /\ [](\A c \in DOMAIN resized : \A k \in DOMAIN resized[c] : resized[c][k] = RunVariant)
    /\ [][calls # << >> => use_cuda' = use_cuda]_vars

C22_Witness ==
    /\ ~use_cuda
    /\ Len(resized) >= 2
    /\ \A c \in DOMAIN resized : resized[c] # << >>

\* the file names a thumbnail run on this input with this configuration
\* gives, computed from the input alone
ExpectedFiles ==
    LET d  == Duration(video.total_frames, video.fps)
        ts == Linspace(d, NumThumbnails(args.processor, d, args.output_fps))
        fd == FrameData(args.processor, video, ts)
    IN  Sorted([k \in 1..Len(fd) |-> OutputPath(fd[k])])

\* C23: the list of files of a thumbnail run is fixed by the input and the
\* configuration, whatever the order in which the workers completed, so
\* that two runs on the same input give the same files in the same order.
C23_SameFilesEveryRun == t_ret.kind = "files" => t_ret.files = ExpectedFiles

C23_Witness ==
    /\ t_ret.kind = "files"
    /\ Len(t_ret.files) >= 2
    /\ thumbnail_files # t_ret.files

\* a unit of work that a worker has taken is not given to a worker again
NotRestarted(before, after) ==
    \A k \in DOMAIN before :
        /\ before[k] = "running" => after[k] \in {"running", "done", "raised"}
        /\ before[k] \in {"done", "raised"} => after[k] = before[k]

\* C24: every chunk and every frame task is submitted once: the calls of a
\* run are for different chunks, which share no frame, the frame tasks are
\* as many as the entries of frame_data, and a unit of work that a worker
\* has taken, failed or not, is never queued or started again.
C24_SubmittedOnce ==
    /\ [](\A c \in DOMAIN calls : calls[c].chunk = c)
    /\ [](Len(calls) <= Len(chunks) /\ Len(futures) = Len(calls))
    /\ [](\A c1, c2 \in DOMAIN chunks :
             c1 # c2 => Range(chunks[c1]) \cap Range(chunks[c2]) = {})
    /\ [](Len(tasks) \in {0, Len(frame_data)})
    /\ [][Len(futures') >= Len(futures) /\ NotRestarted(futures, futures')]_vars
    /\ [][tasks # << >> => Len(tasks') = Len(tasks) /\ NotRestarted(tasks, tasks')]_vars

C24_Witness ==
    /\ d_pc = "returned"
    /\ Len(calls) >= 2
    /\ Len(calls) = Len(chunks)
    /\ \E c \in DOMAIN futures : futures[c] = "raised"

\* C26: a run of main with an automatic processor, which never makes the
\* 'temp' directory, leaves a 'temp' directory it finds as it is: the step
\* that ends such a run does not change the directory.
C26_ForeignTempKept ==
    [][\A r \in Runs :
          /\ runs[r].processor \in AutoProcessors
          /\ runs[r].pc = "finally"
          /\ runs'[r].pc = "exited"
          => temp' = temp]_vars

\* C28: get_audio_offset removes its temporary directory once on every way
\* out and never calls the removal on a directory that is gone; a call whose
\* alignment gave no results or was interrupted returns None.
C28_TempDirRemovedOnce ==
    a_pc = "ended" =>
        /\ rmtree_calls = 1
        /\ a_temp_dir = "absent"
        /\ a_outcome \in {"empty", "KeyboardInterrupt"} => a_ret = ReturnedResult("None")

\* the thumbnail input of the assembly call resolves to an empty list
EmptyThumbnailInput ==
    /\ v_call.thumbnails_input.kind # "bad_json"
    /\ v_call.thumbnails_input.files = << >>

C30_HandlesReleased ==
    /\ \A c \in DOMAIN futures :
          futures[c] \in {"done", "raised"} => chunk_cap[c] = "released"
    /\ d_pc \in {"returned", "propagated"} =>
          /\ cap \in {"none", "released"}
          /\ out \in {"none", "released"}
====
